---------------------------- MODULE Spec2Model ----------------------------
(***************************************************************************)
(* Model of app/models/transaction_model.py: the TransactionModel         *)
(* repository over the "transactions" collection.                          *)
(*                                                                         *)
(* A document is a function from field names to values.  The collection   *)
(* is the set of stored documents.  An ObjectId is a record [oid |-> hex], *)
(* so that ObjectId(s) and str(o) are real conversions between a string    *)
(* and an identifier value.  Python's None is the value None below.        *)
(* Every repository call reads the clock once; the clock advances with     *)
(* every call.                                                             *)
(***************************************************************************)
EXTENDS Integers, Sequences, FiniteSets, TLC

VARIABLES collection, nextId, now, last

vars == <<collection, nextId, now, last>>

---------------------------------------------------------------------------
(* Bounds of the model *)

\* number of identifiers the store hands out
MaxDocs == 2
\* calls are made while the clock is below MaxTime
MaxTime == 3
\* longest root-version list a stored transaction starts with
MaxListLen == 2

---------------------------------------------------------------------------
(* Values *)

None == "<None>"

\* 24-hex-digit strings the store hands out as identifiers, in order
IdStr == <<"id1", "id2", "id3", "id4">>

\* hex strings of user identifiers
OwnerStrs == {"u1", "u2"}

\* strings that parse as an ObjectId
HexStrs == {IdStr[i] : i \in 1..Len(IdStr)} \cup OwnerStrs

\* a string that does not parse as an ObjectId
BadStr == "bad"

TxnIdInputs == {IdStr[i] : i \in 1..MaxDocs} \cup {BadStr}
OwnerInputs == OwnerStrs \cup {BadStr}
NameInputs == {"n2"}
AssetInputs == {None, "A"}
Columns == {"c1"}
Datatypes == {"int"}
RootVersions == {"v1", "v2"}
\* "v1" has a version record, "v9" has none
FileVersions == {"v1", "v9"}
PreprocessedVersions == {"v1"}
CutoffInputs == {"31/12/2024"}

EmptyMap == [c \in {} |-> ""]

\* bson.ObjectId(s): defined only for strings that parse
IsValidId(s) == s \in HexStrs
ObjectId(s) == [oid |-> s]
\* str(ObjectId)
Str(o) == o.oid

\* truthiness of a nullable string field
Truthy(v) == v # None /\ v # ""

---------------------------------------------------------------------------
(* Documents *)

\* dict.update / {**a, **b}
SetFields(doc, patch) ==
    [k \in DOMAIN doc \cup DOMAIN patch |->
        IF k \in DOMAIN patch THEN patch[k] ELSE doc[k]]

\* dict without some keys
DropFields(doc, keys) == [k \in DOMAIN doc \ keys |-> doc[k]]


---------------------------------------------------------------------------
(* Collaborators *)

\* app.utils.timestamps.add_timestamps(data, is_update): create mode stamps
\* created_at and updated_at, update mode stamps updated_at only
add_timestamps(data, is_update, t) ==
    IF is_update
    THEN SetFields(data, [updated_at |-> t])
    ELSE SetFields(data, [created_at |-> t, updated_at |-> t])

\* TransactionVersionModel.get_version(version_id): the version record, or None
VersionRecords == [v1 |-> [files_path |-> "/files/v1"]]
HasVersion(version_id) == version_id \in DOMAIN VersionRecords
get_version(version_id) == VersionRecords[version_id]

---------------------------------------------------------------------------
(* The document store (pymongo Collection) *)

\* the documents a filter {"_id": oid} matches
MatchId(coll, oid) == {d \in coll : d["_id"] = oid}

\* the documents a filter {"user_id": oid} matches
MatchOwner(coll, oid) == {d \in coll : d["user_id"] = oid}

\* a dotted key "new_added_columns_datatype.<column>" addresses a key of the
\* embedded map; any other key addresses a top-level field
ColumnKey(column_name) == "new_added_columns_datatype." \o column_name
IsColumnKey(key) == \E c \in Columns : key = ColumnKey(c)
ColumnOf(key) == CHOOSE c \in Columns : key = ColumnKey(c)

\* {"$set": fields}
SetOp(doc, fields) ==
    LET top == {k \in DOMAIN fields : ~IsColumnKey(k)}
        sub == {k \in DOMAIN fields : IsColumnKey(k)}
        d1  == [k \in DOMAIN doc \cup top |->
                   IF k \in top THEN fields[k] ELSE doc[k]]
        m0  == IF "new_added_columns_datatype" \in DOMAIN d1
               THEN d1["new_added_columns_datatype"] ELSE EmptyMap
        m1  == [c \in DOMAIN m0 \cup {ColumnOf(k) : k \in sub} |->
                   IF \E k \in sub : ColumnOf(k) = c
                   THEN fields[ColumnKey(c)] ELSE m0[c]]
    IN  IF sub = {} THEN d1
        ELSE SetFields(d1, [new_added_columns_datatype |-> m1])

\* a variant of PushOp that behaves as $addToSet: a value already in the
\* list is not appended again
AddToSetOp(doc, fields) ==
    [k \in DOMAIN doc \cup DOMAIN fields |->
        IF k \in DOMAIN fields
        THEN LET l == IF k \in DOMAIN doc THEN doc[k] ELSE <<>>
             IN  IF \E i \in 1..Len(l) : l[i] = fields[k]
                 THEN l ELSE Append(l, fields[k])
        ELSE doc[k]]

\* {"$push": {field: value}}: appends, creating the list when it is absent
PushOp(doc, fields) ==
    [k \in DOMAIN doc \cup DOMAIN fields |->
        IF k \in DOMAIN fields
        THEN Append(IF k \in DOMAIN doc THEN doc[k] ELSE <<>>, fields[k])
        ELSE doc[k]]

\* a variant of PullOp that removes the first occurrence only
PullFirstOp(doc, fields) ==
    [k \in DOMAIN doc |->
        IF k \in DOMAIN fields
           /\ \E i \in 1..Len(doc[k]) : doc[k][i] = fields[k]
        THEN LET l == doc[k]
                 i == CHOOSE j \in 1..Len(l) :
                          /\ l[j] = fields[k]
                          /\ \A h \in 1..(j - 1) : l[h] # fields[k]
             IN  SubSeq(l, 1, i - 1) \o SubSeq(l, i + 1, Len(l))
        ELSE doc[k]]

\* {"$pull": {field: value}}: removes every element equal to value; an
\* absent list stays absent
PullOp(doc, fields) ==
    [k \in DOMAIN doc |->
        IF k \in DOMAIN fields
        THEN SelectSeq(doc[k], LAMBDA x : x # fields[k])
        ELSE doc[k]]

ApplyUpdate(doc, operator, fields) ==
    CASE operator = "$set"  -> SetOp(doc, fields)
      [] operator = "$push" -> PushOp(doc, fields)
      [] operator = "$pull" -> PullOp(doc, fields)

\* Collection.update_one(filter {"_id": oid}, {operator: fields}), no upsert:
\* the collection afterwards and the UpdateResult
update_one(coll, oid, operator, fields) ==
    IF MatchId(coll, oid) = {}
    THEN [coll |-> coll, matched_count |-> 0, modified_count |-> 0]
    ELSE LET old == CHOOSE d \in coll : d["_id"] = oid
             new == ApplyUpdate(old, operator, fields)
         IN  [coll |-> (coll \ {old}) \cup {new},
              matched_count |-> 1,
              modified_count |-> IF new = old THEN 0 ELSE 1]

\* the identifier the store generates for an inserted document
NewObjectId(n) == ObjectId(IdStr[n])

\* Collection.insert_one(doc): the collection afterwards and the InsertOneResult
insert_one(coll, doc, n) ==
    [coll |-> coll \cup {SetFields(doc, [_id |-> NewObjectId(n)])},
     inserted_id |-> NewObjectId(n)]

\* Collection.delete_one(filter {"_id": oid})
delete_one(coll, oid) ==
    [coll |-> coll \ MatchId(coll, oid),
     deleted_count |-> Cardinality(MatchId(coll, oid))]

---------------------------------------------------------------------------
(* What a call leaves for its caller: the method, its arguments, whether the
   store failed under it, and the outcome.  kind is "raised" when an
   exception escapes, else the shape of the returned value: "none" (None),
   "id" (rid), "doc" (the one element of docs), "list" (docs; the order of
   the list is the store's) or "bool" (flag). *)

Outcome(op, args, storeFail, kind, flag, rid, docs) ==
    [op |-> op, args |-> args, storeFail |-> storeFail, kind |-> kind,
     flag |-> flag, rid |-> rid, docs |-> docs]

\* bson.errors.InvalidId is no PyMongoError: no except clause catches it
Raised(op, args)      == Outcome(op, args, FALSE, "raised", FALSE, None, {})
ReturnNone(op, args, f) == Outcome(op, args, f, "none", FALSE, None, {})
ReturnBool(op, args, f, b) == Outcome(op, args, f, "bool", b, None, {})
ReturnId(op, args, oid) == Outcome(op, args, FALSE, "id", FALSE, Str(oid), {})
ReturnDoc(op, args, d)  == Outcome(op, args, FALSE, "doc", FALSE, None, {d})
ReturnList(op, args, f, ds) == Outcome(op, args, f, "list", FALSE, None, ds)

\* transaction["_id"] = str(...); transaction["user_id"] = str(...)
Stringify(d) ==
    SetFields(d, [_id |-> Str(d["_id"]), user_id |-> Str(d["user_id"])])

\* a variant of Modified that reads result.modified_count >= 0
ModifiedOrNot(result) == result.modified_count >= 0

\* a variant of Deleted that reads result.deleted_count >= 0
DeletedOrNot(result) == result.deleted_count >= 0

\* result.modified_count > 0
Modified(result) == result.modified_count > 0

\* result.deleted_count > 0
Deleted(result) == result.deleted_count > 0

\* A call that only runs update_one on {"_id": ObjectId(transaction_id)}
UpdateCall(op, args, operator, fields, storeFail) ==
    IF ~IsValidId(args[1])
    THEN /\ last' = Raised(op, args)
         /\ UNCHANGED collection
    ELSE IF storeFail
    THEN /\ last' = ReturnBool(op, args, TRUE, FALSE)
         /\ UNCHANGED collection
    ELSE LET result == update_one(collection, ObjectId(args[1]), operator, fields)
         IN  /\ collection' = result.coll
             /\ last' = ReturnBool(op, args, FALSE, Modified(result))

\* every call reads the clock once, and the clock moves on
Tick == now < MaxTime /\ now' = now + 1

---------------------------------------------------------------------------
(* TransactionModel *)

get_transaction(transaction_id, storeFail) ==
    /\ Tick
    /\ LET args == <<transaction_id>>
       IN  IF ~IsValidId(transaction_id)
           THEN last' = Raised("get", args)
           ELSE IF storeFail
           THEN last' = ReturnNone("get", args, TRUE)
           ELSE LET found == MatchId(collection, ObjectId(transaction_id))
                IN  IF found = {}
                    THEN last' = ReturnNone("get", args, FALSE)
                    ELSE last' = ReturnDoc("get", args,
                                     Stringify(CHOOSE d \in found : TRUE))
    /\ UNCHANGED <<collection, nextId>>

\* the optional fields of create_transaction, present when not None
OptionalFields(primary_asset_class, secondary_asset_class) ==
    LET given == {k \in {"primary_asset_class", "secondary_asset_class"} :
                    IF k = "primary_asset_class"
                    THEN primary_asset_class # None
                    ELSE secondary_asset_class # None}
    IN  [k \in given |-> IF k = "primary_asset_class"
                         THEN primary_asset_class ELSE secondary_asset_class]

\* a variant of NewTransactionData that stores the asset classes even when
\* they are None
NewTransactionDataAlwaysClassified(user_id, name, base_file_path, primary_asset_class, secondary_asset_class) ==
    [user_id |-> ObjectId(user_id),
     name |-> name,
     base_file_path |-> base_file_path,
     version_number |-> 0,
     base_file |-> None,
     preprocessed_file |-> None,
     column_rename_file |-> None,
     temp_changing_datatype_of_column |-> None,
     changed_datatype_of_column |-> None,
     are_all_steps_complete |-> FALSE,
     new_added_columns_datatype |-> EmptyMap,
     temp_rbi_rules_applied |-> None,
     final_rbi_rules_applied |-> None,
     cutoff_date |-> None,
     primary_asset_class |-> primary_asset_class,
     secondary_asset_class |-> secondary_asset_class]

\* transaction_data of create_transaction, before the timestamps
NewTransactionData(user_id, name, base_file_path, primary_asset_class, secondary_asset_class) ==
    SetFields(
        [user_id |-> ObjectId(user_id),
         name |-> name,
         base_file_path |-> base_file_path,
         version_number |-> 0,
         base_file |-> None,
         preprocessed_file |-> None,
         column_rename_file |-> None,
         temp_changing_datatype_of_column |-> None,
         changed_datatype_of_column |-> None,
         are_all_steps_complete |-> FALSE,
         new_added_columns_datatype |-> EmptyMap,
         temp_rbi_rules_applied |-> None,
         final_rbi_rules_applied |-> None,
         cutoff_date |-> None],
        OptionalFields(primary_asset_class, secondary_asset_class))

create_transaction(user_id, name, base_file_path, primary_asset_class, secondary_asset_class, storeFail) ==
    /\ Tick
    /\ nextId <= MaxDocs
    /\ LET args == <<user_id, name, base_file_path,
                     primary_asset_class, secondary_asset_class>>
       IN  IF ~IsValidId(user_id)
           THEN /\ last' = Raised("create", args)
                /\ UNCHANGED <<collection, nextId>>
           ELSE IF storeFail
           THEN /\ last' = ReturnNone("create", args, TRUE)
                /\ UNCHANGED <<collection, nextId>>
           ELSE LET data == add_timestamps(
                                NewTransactionData(user_id, name, base_file_path,
                                    primary_asset_class, secondary_asset_class),
                                FALSE, now)
                    result == insert_one(collection, data, nextId)
                IN  /\ collection' = result.coll
                    /\ nextId' = nextId + 1
                    /\ last' = ReturnId("create", args, result.inserted_id)

add_new_column_datatype(transaction_id, column_name, datatype, storeFail) ==
    /\ Tick
    /\ UpdateCall("add_new_column_datatype",
                  <<transaction_id, column_name, datatype>>, "$set",
                  SetFields([updated_at |-> now],
                            [k \in {ColumnKey(column_name)} |-> datatype]),
                  storeFail)
    /\ UNCHANGED nextId

\* a variant of StripProtected that forgets to pop "user_id"
StripOnlyId(update_fields) == DropFields(update_fields, {"_id"})

\* update_fields.pop("_id", None); update_fields.pop("user_id", None)
StripProtected(update_fields) == DropFields(update_fields, {"_id", "user_id"})

\* the partial attribute maps callers pass to update_transaction
UpdateFields ==
    [protected  |-> [_id |-> ObjectId(IdStr[2]), user_id |-> ObjectId("u2"),
                     name |-> "n2"],
     created_at |-> [created_at |-> 99],
     steps      |-> [are_all_steps_complete |-> TRUE]]

update_transaction(transaction_id, fieldsName, storeFail) ==
    /\ Tick
    /\ UpdateCall("update", <<transaction_id, fieldsName>>, "$set",
                  add_timestamps(StripProtected(UpdateFields[fieldsName]),
                                 TRUE, now),
                  storeFail)
    /\ UNCHANGED nextId

delete_transaction(transaction_id, storeFail) ==
    /\ Tick
    /\ LET args == <<transaction_id>>
       IN  IF ~IsValidId(transaction_id)
           THEN /\ last' = Raised("delete", args)
                /\ UNCHANGED collection
           ELSE IF storeFail
           THEN /\ last' = ReturnBool("delete", args, TRUE, FALSE)
                /\ UNCHANGED collection
           ELSE LET result == delete_one(collection, ObjectId(transaction_id))
                IN  /\ collection' = result.coll
                    /\ last' = ReturnBool("delete", args, FALSE, Deleted(result))
    /\ UNCHANGED nextId

\* transaction.get("base_file")
BaseFileOf(transaction) ==
    IF "base_file" \in DOMAIN transaction THEN transaction["base_file"] ELSE None

\* base_version.get("files_path", "")
FilesPathOf(base_version) ==
    IF "files_path" \in DOMAIN base_version
    THEN base_version["files_path"] ELSE ""

\* the body of the loop of get_transactions_by_user
WithBaseFileLocation(transaction) ==
    LET t == Stringify(transaction)
    IN  IF Truthy(BaseFileOf(t))
        THEN IF HasVersion(t["base_file"])
             THEN SetFields(t, [base_file_location |->
                                   FilesPathOf(get_version(t["base_file"]))])
             ELSE t
        ELSE SetFields(t, [base_file_location |-> ""])

get_transactions_by_user(user_id, storeFail) ==
    /\ Tick
    /\ LET args == <<user_id>>
       IN  IF ~IsValidId(user_id)
           THEN last' = Raised("list", args)
           ELSE IF storeFail
           THEN last' = ReturnList("list", args, TRUE, {})
           ELSE last' = ReturnList("list", args, FALSE,
                            {WithBaseFileLocation(d) :
                                d \in MatchOwner(collection, ObjectId(user_id))})
    /\ UNCHANGED <<collection, nextId>>

set_base_file(transaction_id, version_id, storeFail) ==
    /\ Tick
    /\ UpdateCall("set_base_file", <<transaction_id, version_id>>, "$set",
                  [base_file |-> version_id, updated_at |-> now], storeFail)
    /\ UNCHANGED nextId

set_preprocessed_file(transaction_id, version_id, storeFail) ==
    /\ Tick
    /\ UpdateCall("set_preprocessed_file", <<transaction_id, version_id>>, "$set",
                  [preprocessed_file |-> version_id, updated_at |-> now],
                  storeFail)
    /\ UNCHANGED nextId

change_transaction_name(transaction_id, new_name, storeFail) ==
    /\ Tick
    /\ UpdateCall("change_transaction_name", <<transaction_id, new_name>>, "$set",
                  add_timestamps([name |-> new_name], TRUE, now), storeFail)
    /\ UNCHANGED nextId

update_cutoff_date(transaction_id, cutoff_date, storeFail) ==
    /\ Tick
    /\ UpdateCall("update_cutoff_date", <<transaction_id, cutoff_date>>, "$set",
                  [cutoff_date |-> cutoff_date, updated_at |-> now], storeFail)
    /\ UNCHANGED nextId

add_rule_application_root_version(transaction_id, version_id, storeFail) ==
    /\ Tick
    /\ UpdateCall("add_rule_application_root_version",
                  <<transaction_id, version_id>>, "$push",
                  [rule_application_root_versions |-> version_id], storeFail)
    /\ UNCHANGED nextId

remove_rule_application_root_version(transaction_id, version_id, storeFail) ==
    /\ Tick
    /\ UpdateCall("remove_rule_application_root_version",
                  <<transaction_id, version_id>>, "$pull",
                  [rule_application_root_versions |-> version_id], storeFail)
    /\ UNCHANGED nextId

---------------------------------------------------------------------------
(* The specification *)

SeqsUpTo(S, n) == UNION {[1..k -> S] : k \in 0..n}

\* The collection holds one transaction, created at time 0 by
\* create_transaction("u1", "n1", "/data"), which since then has had any
\* number of root versions added and removed (those calls touch no other
\* field).
InitTransactions ==
    LET fresh == SetFields(
                     add_timestamps(
                         NewTransactionData("u1", "n1", "/data", None, None),
                         FALSE, 0),
                     [_id |-> NewObjectId(1)])
    IN  {fresh} \cup
        {SetFields(fresh, [rule_application_root_versions |-> l]) :
            l \in SeqsUpTo(RootVersions, MaxListLen)}

Init ==
    /\ collection \in {{d} : d \in InitTransactions}
    /\ nextId = 2
    /\ now = 1
    /\ last = Outcome("init", <<>>, FALSE, "none", FALSE, None, {})

Next ==
    \E storeFail \in BOOLEAN :
        \/ \E id \in TxnIdInputs : get_transaction(id, storeFail)
        \/ \E u \in OwnerInputs, p \in AssetInputs, s \in AssetInputs :
              create_transaction(u, "n1", "/data", p, s, storeFail)
        \/ \E id \in TxnIdInputs, c \in Columns, t \in Datatypes :
              add_new_column_datatype(id, c, t, storeFail)
        \/ \E id \in TxnIdInputs, f \in DOMAIN UpdateFields :
              update_transaction(id, f, storeFail)
        \/ \E id \in TxnIdInputs : delete_transaction(id, storeFail)
        \/ \E u \in OwnerInputs : get_transactions_by_user(u, storeFail)
        \/ \E id \in TxnIdInputs, v \in FileVersions :
              set_base_file(id, v, storeFail)
        \/ \E id \in TxnIdInputs, v \in PreprocessedVersions :
              set_preprocessed_file(id, v, storeFail)
        \/ \E id \in TxnIdInputs, n \in NameInputs :
              change_transaction_name(id, n, storeFail)
        \/ \E id \in TxnIdInputs, c \in CutoffInputs :
              update_cutoff_date(id, c, storeFail)
        \/ \E id \in TxnIdInputs, v \in RootVersions :
              add_rule_application_root_version(id, v, storeFail)
        \/ \E id \in TxnIdInputs, v \in RootVersions :
              remove_rule_application_root_version(id, v, storeFail)

Spec == Init /\ [][Next]_vars

---------------------------------------------------------------------------
(* Properties *)

ListKey == "rule_application_root_versions"

\* the stored transaction with the identifier a call was given
Has(coll, id) == IsValidId(id) /\ MatchId(coll, ObjectId(id)) # {}
Find(coll, id) == CHOOSE d \in coll : d["_id"] = ObjectId(id)

\* the root-version list of a stored transaction; a transaction that never
\* had a root version added has none
RootList(d) == IF ListKey \in DOMAIN d THEN d[ListKey] ELSE <<>>

RECURSIVE Count(_, _)
Count(l, v) ==
    IF l = <<>> THEN 0
    ELSE (IF Head(l) = v THEN 1 ELSE 0) + Count(Tail(l), v)

RECURSIVE Without(_, _)
Without(l, v) ==
    IF l = <<>> THEN <<>>
    ELSE IF Head(l) = v THEN Without(Tail(l), v)
    ELSE <<Head(l)>> \o Without(Tail(l), v)

\* the (identifier, owner) pairs of the stored transactions
IdOwnerPairs(coll) == {<<d["_id"], d["user_id"]>> : d \in coll}

\* the call that led to this state ran against a working store
Ran(l, op) == l.op = op /\ ~l.storeFail /\ l.kind # "raised"

\* C1: the identifier and the owner of a stored transaction never change:
\* a step adds an (identifier, owner) pair to the collection only when it is
\* a create, and then the pair is the new identifier with the owner given.
\* update(id, fields) with _id and user_id among the fields is not rejected:
\* it returns true, leaves the pair as it was and applies the other fields.
C1_IdAndOwnerImmutable ==
    [][/\ \A pair \in IdOwnerPairs(collection') \ IdOwnerPairs(collection) :
             /\ last'.op = "create"
             /\ last'.kind = "id"
             /\ pair = <<ObjectId(last'.rid), ObjectId(last'.args[1])>>
       /\ (/\ Ran(last', "update")
           /\ last'.args[2] = "protected"
           /\ Has(collection, last'.args[1]))
          => /\ last'.flag
             /\ Has(collection', last'.args[1])
             /\ LET old == Find(collection, last'.args[1])
                    new == Find(collection', last'.args[1])
                IN  /\ new["user_id"] = old["user_id"]
                    /\ new["name"] = UpdateFields["protected"]["name"]
                    /\ Cardinality(collection') = Cardinality(collection)
      ]_vars

C1_Witness ==
    /\ Ran(last, "update")
    /\ last.args = <<IdStr[1], "protected">>
    /\ last.flag
    /\ Has(collection, IdStr[1])
    /\ Find(collection, IdStr[1])["name"] = "n2"
    /\ Find(collection, IdStr[1])["user_id"] = ObjectId("u1")

\* the value each method documents for a failure
IsSentinel(l) ==
    CASE l.op \in {"get", "create"} -> l.kind = "none"
      [] l.op = "list" -> l.kind = "list" /\ l.docs = {}
      [] OTHER -> l.kind = "bool" /\ ~l.flag

\* C2: a call under which the store fails, or whose identifier argument does
\* not parse, returns the method's sentinel and lets no error escape.
C2_FailureYieldsSentinel ==
    (last.op # "init" /\ (last.storeFail \/ ~IsValidId(last.args[1])))
        => IsSentinel(last)

\* the base_file_location the listing is to carry for a stored transaction
ExpectedLocation(d) ==
    IF Truthy(BaseFileOf(d)) /\ HasVersion(d["base_file"])
    THEN get_version(d["base_file"])["files_path"]
    ELSE ""

\* C3: listByOwner(owner_id) returns exactly the stored transactions of that
\* owner, each with base_file_location: the files_path of the version record
\* of its base_file, or "" when base_file is unset or has no version record.
C3_ListCarriesLocation ==
    Ran(last, "list")
        => last.docs =
             {SetFields(Stringify(d), [base_file_location |-> ExpectedLocation(d)]) :
                 d \in MatchOwner(collection, ObjectId(last.args[1]))}

MutatingOps ==
    {"add_new_column_datatype", "update", "set_base_file",
     "set_preprocessed_file", "change_transaction_name", "update_cutoff_date",
     "add_rule_application_root_version",
     "remove_rule_application_root_version"}

\* C4: after a mutating call that returned true, updated_at of the transaction
\* is the time of that call (the clock read now - 1 when the call was made).
C4_UpdatedAtRefreshed ==
    (last.op \in MutatingOps /\ last.kind = "bool" /\ last.flag)
        => /\ Has(collection, last.args[1])
           /\ Find(collection, last.args[1])["updated_at"] = now - 1

\* C5: created_at of a stored transaction never changes.
C5_CreatedAtSetOnce ==
    [][\A d \in collection, e \in collection' :
          e["_id"] = d["_id"] => e["created_at"] = d["created_at"]]_vars

\* the record create_transaction(args) is to leave in the store, as get
\* renders it, timestamps aside
MatchesCreation(t, id, args) ==
    /\ t["_id"] = id
    /\ t["user_id"] = args[1]
    /\ t["name"] = args[2]
    /\ t["base_file_path"] = args[3]
    /\ t["version_number"] = 0
    /\ t["are_all_steps_complete"] = FALSE
    /\ DOMAIN t["new_added_columns_datatype"] = {}
    /\ \A k \in {"base_file", "preprocessed_file", "column_rename_file",
                 "temp_changing_datatype_of_column",
                 "changed_datatype_of_column", "cutoff_date"} :
          k \in DOMAIN t /\ t[k] = None
    /\ ("primary_asset_class" \in DOMAIN t) <=> (args[4] # None)
    /\ ("secondary_asset_class" \in DOMAIN t) <=> (args[5] # None)
    /\ args[4] # None => t["primary_asset_class"] = args[4]
    /\ args[5] # None => t["secondary_asset_class"] = args[5]

\* C6: when create() has returned an identifier, a get() of that identifier
\* made next (against a working store) returns a record with the owner, name
\* and base path given, the defaults of a new transaction, and the asset
\* classes exactly when they were given.
C6_CreateThenGet ==
    [][(/\ last.op = "create"
        /\ last.kind = "id"
        /\ Ran(last', "get")
        /\ last'.args[1] = last.rid)
       => /\ last'.kind = "doc"
          /\ \A t \in last'.docs : MatchesCreation(t, last.rid, last.args)
      ]_vars

C6_Witness ==
    /\ Ran(last, "get")
    /\ last.kind = "doc"
    /\ \E t \in last.docs :
          /\ t["_id"] = IdStr[2]
          /\ t["created_at"] = now - 2
          /\ "primary_asset_class" \in DOMAIN t
          /\ "secondary_asset_class" \notin DOMAIN t

C8_AddRootVersion ==
    [][(/\ Ran(last', "add_rule_application_root_version")
        /\ Has(collection, last'.args[1]))
       => /\ last'.flag
          /\ Has(collection', last'.args[1])
          /\ LET old == Find(collection, last'.args[1])
                 new == Find(collection', last'.args[1])
                 v   == last'.args[2]
             IN  /\ ListKey \in DOMAIN new
                 /\ new[ListKey] = Append(RootList(old), v)
                 /\ Count(new[ListKey], v) = Count(RootList(old), v) + 1
                 /\ ListKey \notin DOMAIN old => new[ListKey] = <<v>>
      ]_vars

\* v appended to a list that held v already
C8_Witness ==
    /\ Ran(last, "add_rule_application_root_version")
    /\ last.args = <<IdStr[1], "v1">>
    /\ last.flag
    /\ RootList(Find(collection, IdStr[1])) = <<"v1", "v1">>

\* the identifiers the store has handed out that are stored no longer
Gone(coll, n) == {i \in 1..(n - 1) : MatchId(coll, NewObjectId(i)) = {}}

\* C9: when delete(id) returns true the transaction is gone, and a
\* transaction that is gone stays gone: no later call stores a document under
\* its identifier, get(id) returns "not found", and no listing contains it.
C9_DeletedStaysDeleted ==
    [][/\ (Ran(last', "delete") /\ last'.flag)
          => \E i \in Gone(collection', nextId') : IdStr[i] = last'.args[1]
       /\ Gone(collection, nextId) \subseteq Gone(collection', nextId')
       /\ \A i \in Gone(collection, nextId) :
             /\ (last'.op = "get" /\ last'.args[1] = IdStr[i])
                   => last'.kind = "none"
             /\ last'.op = "list"
                   => \A t \in last'.docs : t["_id"] # IdStr[i]
      ]_vars

C9_Witness ==
    /\ Ran(last, "get")
    /\ last.args = <<IdStr[1]>>
    /\ last.kind = "none"
    /\ 1 \in Gone(collection, nextId)

\* C10: update(id, fields) returns true only if the call changed a stored
\* document, delete(id) returns true only if the call removed one, and for
\* a well-formed id that matches no stored transaction both return false and
\* leave the collection as it was.
C10_SuccessFlag ==
    [][/\ (last'.op = "update" /\ last'.kind = "bool" /\ last'.flag)
          => /\ Has(collection, last'.args[1])
             /\ Find(collection, last'.args[1]) \notin collection'
       /\ (last'.op = "delete" /\ last'.kind = "bool" /\ last'.flag)
          => /\ Has(collection, last'.args[1])
             /\ collection' = collection \ {Find(collection, last'.args[1])}
       /\ (/\ last'.op \in {"update", "delete"}
           /\ IsValidId(last'.args[1])
           /\ ~Has(collection, last'.args[1]))
          => /\ last'.kind = "bool"
             /\ ~last'.flag
             /\ collection' = collection
      ]_vars

\* update of an identifier that was never stored
C10_Witness ==
    /\ Ran(last, "update")
    /\ last.args[1] = IdStr[2]
    /\ ~last.flag
    /\ ~Has(collection, IdStr[2])
    /\ nextId = 2

=============================================================================
